---- MODULE Spec2Model ----
(***************************************************************************)
(* Gradient compression strategies of horovod/tensorflow/compression.py:   *)
(* NoneCompressor, FP16Compressor and INT8Compressor, driven through one   *)
(* allreduce step (compress on every peer, elementwise sum, decompress).   *)
(*                                                                         *)
(* A tensor is a record [dtype, shape, val]; every operation of the file   *)
(* is elementwise, so val is the value of one (any) element.  A floating   *)
(* value is an extended rational [n, d]: n/d with d > 0 in lowest terms,   *)
(* +inf = 1/0, -inf = -1/0, NaN = 0/0.  float32/float64 arithmetic is      *)
(* carried out exactly on these rationals; the casts to float16 and to     *)
(* int8 round, saturate and truncate as the casts do.                      *)
(***************************************************************************)
EXTENDS Integers, Sequences, FiniteSets, TLC

VARIABLES strategy,      \* Compression.none / fp16 / int8
          dtype,         \* dtype of the gradient, the same on every peer
          shape,         \* shape of the gradient, the same on every peer
          horovod_size,  \* number of peers (argument of INT8Compressor.compress)
          global_max,    \* argument of INT8Compressor.compress / decompress
          global_min,    \* argument of INT8Compressor.compress / decompress
          pc,            \* "idle", "compressed", "reduced", "done", "raised"
          tensor,        \* argument of the compress call in progress
          payload,       \* first component returned by compress
          ctx,           \* second component returned by compress
          raised,        \* the exception a call ended in, or "none"
          k,             \* number of payloads handed to the allreduce so far
          agg,           \* running elementwise sum, in the payload's dtype
          total,         \* the same sum as a mathematical number
          result         \* tensor returned by decompress

vars == <<strategy, dtype, shape, horovod_size, global_max, global_min, pc,
          tensor, payload, ctx, raised, k, agg, total, result>>

----------------------------------------------------------------------------
(* Bounds of the model *)

MaxHorovodSize == 4
MaxPlainSize == 2
MaxNum == 10

(* 8-bit quantization: the 8 of 2**(8-1) *)
Bits == 8

----------------------------------------------------------------------------
(* Extended rational arithmetic (IEEE semantics for inf and NaN) *)

Abs(i) == IF i < 0 THEN -i ELSE i

Sign(i) == IF i < 0 THEN -1 ELSE IF i > 0 THEN 1 ELSE 0

RECURSIVE Gcd(_, _)
Gcd(a, b) == IF b = 0 THEN a ELSE Gcd(b, a % b)

RECURSIVE Pow2(_)
Pow2(e) == IF e = 0 THEN 1 ELSE 2 * Pow2(e - 1)

NaN == [n |-> 0, d |-> 0]

Rat(n, d) ==
    IF d = 0 THEN [n |-> Sign(n), d |-> 0]
    ELSE LET g == Gcd(Abs(n), Abs(d))
         IN  [n |-> (Sign(d) * n) \div g, d |-> Abs(d) \div g]

Whole(i) == [n |-> i, d |-> 1]

IsNaN(a) == a.d = 0 /\ a.n = 0
IsInf(a) == a.d = 0 /\ a.n # 0
IsFinite(a) == a.d # 0

FNeg(a) == [n |-> -a.n, d |-> a.d]

FAdd(a, b) ==
    IF IsNaN(a) \/ IsNaN(b) THEN NaN
    ELSE IF IsInf(a) THEN (IF IsInf(b) /\ b.n # a.n THEN NaN ELSE a)
    ELSE IF IsInf(b) THEN b
    ELSE Rat(a.n * b.d + b.n * a.d, a.d * b.d)

FSub(a, b) == FAdd(a, FNeg(b))

FMul(a, b) ==
    IF IsNaN(a) \/ IsNaN(b) THEN NaN
    ELSE IF IsInf(a) \/ IsInf(b)
         THEN (IF a.n = 0 \/ b.n = 0 THEN NaN
               ELSE [n |-> Sign(a.n) * Sign(b.n), d |-> 0])
    ELSE Rat(a.n * b.n, a.d * b.d)

FDiv(a, b) ==
    IF IsNaN(a) \/ IsNaN(b) THEN NaN
    ELSE IF IsInf(a) THEN (IF IsInf(b) THEN NaN
                           ELSE [n |-> a.n * (IF b.n < 0 THEN -1 ELSE 1), d |-> 0])
    ELSE IF IsInf(b) THEN Whole(0)
    ELSE IF b.n = 0 THEN (IF a.n = 0 THEN NaN ELSE [n |-> Sign(a.n), d |-> 0])
    ELSE Rat(a.n * b.d, a.d * b.n)

(* a <= b and a < b; false when either side is NaN *)
FLe(a, b) ==
    /\ ~IsNaN(a) /\ ~IsNaN(b)
    /\ IF IsInf(a) THEN (a.n < 0 \/ b = a)
       ELSE IF IsInf(b) THEN b.n > 0
       ELSE a.n * b.d <= b.n * a.d

FLt(a, b) == FLe(a, b) /\ a # b

FAbs(a) == [n |-> Abs(a.n), d |-> a.d]

----------------------------------------------------------------------------
(* Tensors, dtypes and the tensorflow primitives the file calls *)

FloatingDtypes == {"float16", "float32", "float64"}

(* tensor.dtype.is_floating *)
is_floating(dt) == dt \in FloatingDtypes

Tensor(dt, sh, v) == [dtype |-> dt, shape |-> sh, val |-> v]

NoTensor == Tensor("unset", <<>>, NaN)

(* variant: rounds down instead of to nearest *)
tf_round_down(t) ==
    IF ~IsFinite(t.val) THEN t
    ELSE [t EXCEPT !.val = Whole(t.val.n \div t.val.d)]

(* tf.math.round: round half to even, elementwise; inf and NaN pass through *)
tf_round(t) ==
    IF ~IsFinite(t.val) THEN t
    ELSE LET n == t.val.n
             d == t.val.d
             f == n \div d
             r == n % d
             q == IF 2 * r < d THEN f
                  ELSE IF 2 * r > d THEN f + 1
                  ELSE IF f % 2 = 0 THEN f ELSE f + 1
         IN  [t EXCEPT !.val = Whole(q)]

(* variant: the clip is left out *)
clip_by_value_skipped(t, clip_value_min, clip_value_max) == t

(* tf.clip_by_value(t, lo, hi) = minimum(maximum(t, lo), hi); NaN stays NaN *)
clip_by_value(t, clip_value_min, clip_value_max) ==
    LET v  == t.val
        up == IF IsNaN(v) THEN v ELSE IF FLt(v, clip_value_min) THEN clip_value_min ELSE v
        dn == IF IsNaN(up) THEN up ELSE IF FLt(clip_value_max, up) THEN clip_value_max ELSE up
    IN  [t EXCEPT !.val = dn]

(* Outcomes of casting a value that has no int8 image (NaN): the conversion *)
(* is undefined, builds yield the "integer indefinite" low byte 0 or saturate *)
NaNCastOutcomes == {-Pow2(Bits - 1), 0}

(* wrap an integer into the signed 8-bit range *)
WrapInt8(i) == ((i + Pow2(Bits - 1)) % Pow2(Bits)) - Pow2(Bits - 1)

(* float -> int8: truncation toward zero; ub picks the outcome for NaN / inf *)
CastToInt8(v, ub) ==
    IF ~IsFinite(v) THEN Whole(ub)
    ELSE LET tr == IF v.n >= 0 THEN v.n \div v.d ELSE -((-v.n) \div v.d)
         IN  Whole(WrapInt8(tr))

(* spacing of float16 values around the positive integer m (11-bit significand) *)
RECURSIVE Float16Ulp(_)
Float16Ulp(m) == IF m < Pow2(11) THEN 1 ELSE 2 * Float16Ulp(m \div 2)

(* float -> float16: round the significand to 11 bits, half to even; *)
(* magnitudes above the largest half value 65504 become infinite      *)
CastToFloat16(v) ==
    IF ~IsFinite(v) THEN v
    ELSE LET m  == Abs(v.n)
             u  == Float16Ulp(m)
             f  == m \div u
             r  == m % u
             q  == IF 2 * r < u THEN f
                   ELSE IF 2 * r > u THEN f + 1
                   ELSE IF f % 2 = 0 THEN f ELSE f + 1
             rn == q * u
         IN  IF rn > 65504 * v.d THEN [n |-> Sign(v.n), d |-> 0]
             ELSE Rat(Sign(v.n) * rn, v.d)

(* tf.cast(tensor, dtype): narrowing casts round, widening casts are exact *)
tf_cast(t, dt, ub) ==
    IF dt = t.dtype THEN t
    ELSE IF dt = "int8" THEN Tensor(dt, t.shape, CastToInt8(t.val, ub))
    ELSE IF dt = "float16" THEN Tensor(dt, t.shape, CastToFloat16(t.val))
    ELSE Tensor(dt, t.shape, t.val)

----------------------------------------------------------------------------
(* The three strategies.  compress returns [raised, payload, ctx];         *)
(* decompress returns the tensor.                                          *)

Returned(t, c) == [raised |-> "none", payload |-> t, ctx |-> c]

Raised(e) == [raised |-> e, payload |-> NoTensor, ctx |-> "unset"]

(* variant: returns the dtype as context, like the other strategies *)
NoneCompressor_compress_with_dtype(t) == Returned(t, t.dtype)

NoneCompressor_compress(t) == Returned(t, "None")

NoneCompressor_decompress(t, c) == t

(* variant: casts without the is_floating test *)
FP16Compressor_compress_always_casts(t) ==
    Returned(tf_cast(t, "float16", 0), t.dtype)

FP16Compressor_compress(t) ==
    LET tensor_compressed ==
            IF is_floating(t.dtype) THEN tf_cast(t, "float16", 0) ELSE t
    IN  Returned(tensor_compressed, t.dtype)

(* variant: the cast back to the original dtype is left out *)
FP16Compressor_decompress_no_upcast(t, c) == t

FP16Compressor_decompress(t, c) ==
    IF is_floating(c) THEN tf_cast(t, c, 0) ELSE t

(* variant: the full range of decompress, not divided by horovod_size *)
compress_valid_max_unshrunk(hs) == Whole(Pow2(Bits - 1) - 1)

(* valid_max = (2**(8-1)/horovod_size - 1): Python true division, hs # 0 *)
compress_valid_max(hs) == FSub(FDiv(Whole(Pow2(Bits - 1)), Whole(hs)), Whole(1))

(* valid_min = (2**(8-1)/horovod_size - 1) * -1 *)
compress_valid_min(hs) == FMul(compress_valid_max(hs), Whole(-1))

(* variant: valid_max is computed before the is_floating test *)
INT8Compressor_compress_hoisted(t, hs, gmax, gmin, ub) ==
    IF hs = 0 THEN Raised("ZeroDivisionError")
    ELSE IF ~is_floating(t.dtype) THEN Returned(t, t.dtype)
    ELSE LET valid_max == compress_valid_max(hs)
             valid_min == compress_valid_min(hs)
             t1 == [t EXCEPT !.val = FDiv(FSub(t.val, gmin), FSub(gmax, gmin))]
             t2 == [t1 EXCEPT !.val = FAdd(FMul(t1.val, FSub(valid_max, valid_min)),
                                           valid_min)]
             t5 == tf_cast(clip_by_value(tf_round(t2), valid_min, valid_max), "int8", ub)
         IN  Returned(t5, t.dtype)

INT8Compressor_compress(t, hs, gmax, gmin, ub) ==
    IF ~is_floating(t.dtype) THEN Returned(t, t.dtype)
    ELSE IF hs = 0 THEN Raised("ZeroDivisionError")
    ELSE LET valid_max == compress_valid_max(hs)
             valid_min == compress_valid_min(hs)
             t1 == [t EXCEPT !.val = FDiv(FSub(t.val, gmin), FSub(gmax, gmin))]
             t2 == [t1 EXCEPT !.val = FAdd(FMul(t1.val, FSub(valid_max, valid_min)),
                                           valid_min)]
             t3 == tf_round(t2)
             t4 == clip_by_value(t3, valid_min, valid_max)
             t5 == tf_cast(t4, "int8", ub)
         IN  Returned(t5, t.dtype)

(* variant: one bit short *)
decompress_valid_max_short == Whole(Pow2(Bits - 2) - 1)

(* valid_max = (2**(8-1) - 1) *)
decompress_valid_max == Whole(Pow2(Bits - 1) - 1)

(* valid_min = (2**(8-1) - 1) * -1 *)
decompress_valid_min == Whole((Pow2(Bits - 1) - 1) * (-1))

(* variant: the shift by valid_min is left out *)
INT8Compressor_decompress_no_offset(t, c, gmax, gmin) ==
    IF ~is_floating(c) THEN t
    ELSE LET t1 == tf_cast(t, c, 0)
             t2 == [t1 EXCEPT !.val = FDiv(t1.val, FSub(decompress_valid_max,
                                                        decompress_valid_min))]
         IN  [t2 EXCEPT !.val = FAdd(FMul(t2.val, FSub(gmax, gmin)), gmin)]

INT8Compressor_decompress(t, c, gmax, gmin) ==
    IF ~is_floating(c) THEN t
    ELSE LET valid_max == decompress_valid_max
             valid_min == decompress_valid_min
             t1 == tf_cast(t, c, 0)
             t2 == [t1 EXCEPT !.val = FDiv(FSub(t1.val, valid_min),
                                           FSub(valid_max, valid_min))]
             t3 == [t2 EXCEPT !.val = FAdd(FMul(t2.val, FSub(gmax, gmin)), gmin)]
         IN  t3

----------------------------------------------------------------------------
(* Inputs *)

Strategies == {"none", "fp16", "int8"}

Dtypes == {"float32", "float64", "int32"}

Shapes == {<<>>, <<2>>}

(* horovod_size as passed to INT8Compressor.compress: 0 (invalid), the small *)
(* sizes, and 2**7, where the usable range shrinks to the single level 0     *)
(* (followed for floating tensors with a non-empty range only)               *)
HorovodSizes == (0 .. MaxHorovodSize) \cup {Pow2(Bits - 1)}

(* global_min / global_max; (0, 0) is the invalid empty range *)
GlobalMins == {Whole(-1), Whole(0)}
GlobalMaxs == {Whole(0), Whole(1), Whole(4)}

(* element values: multiples of 1/2 around the ranges, one value that float16 *)
(* has to round (2048.5) and one beyond the float16 range (70000)             *)
FloatValues == {Rat(i, 2) : i \in ((-(MaxNum \div 2)) .. MaxNum) \cup {4097, 140000}}

IntValues == {Whole(i) : i \in {-3, 0, 7, 300}}

ValuesOf(dt) == IF is_floating(dt) THEN FloatValues ELSE IntValues

----------------------------------------------------------------------------
(* The allreduce step *)

Init ==
    /\ strategy \in Strategies
    /\ dtype \in Dtypes
    /\ shape \in Shapes
    /\ horovod_size \in (IF strategy = "int8" THEN HorovodSizes ELSE 1 .. MaxPlainSize)
    /\ global_max \in (IF strategy = "int8" THEN GlobalMaxs ELSE {Whole(0)})
    /\ global_min \in (IF strategy = "int8" THEN GlobalMins ELSE {Whole(0)})
    /\ FLe(global_min, global_max)
    /\ horovod_size > MaxHorovodSize => is_floating(dtype) /\ FLt(global_min, global_max)
    /\ pc = "idle"
    /\ tensor = NoTensor
    /\ payload = NoTensor
    /\ ctx = "unset"
    /\ raised = "none"
    /\ k = 0
    /\ agg = NoTensor
    /\ total = Whole(0)
    /\ result = NoTensor

(* a peer's compress call returned or raised *)
Complete(t, r) ==
    /\ tensor' = t
    /\ payload' = r.payload
    /\ ctx' = r.ctx
    /\ raised' = r.raised
    /\ pc' = IF r.raised = "none" THEN "compressed" ELSE "raised"
    /\ UNCHANGED <<strategy, dtype, shape, horovod_size, global_max, global_min,
                   k, agg, total, result>>

NoneCompress(x) ==
    /\ pc = "idle"
    /\ strategy = "none"
    /\ LET t == Tensor(dtype, shape, x)
       IN  Complete(t, NoneCompressor_compress(t))

FP16Compress(x) ==
    /\ pc = "idle"
    /\ strategy = "fp16"
    /\ LET t == Tensor(dtype, shape, x)
       IN  Complete(t, FP16Compressor_compress(t))

INT8Compress(x, ub) ==
    /\ pc = "idle"
    /\ strategy = "int8"
    /\ LET t == Tensor(dtype, shape, x)
       IN  Complete(t, INT8Compressor_compress(t, horovod_size, global_max,
                                               global_min, ub))

(* elementwise sum of two payloads, in the arithmetic of their dtype *)
TensorAdd(a, b) ==
    LET s == FAdd(a.val, b.val)
    IN  [a EXCEPT !.val = IF a.dtype = "int8" /\ IsFinite(s) THEN Whole(WrapInt8(s.n))
                          ELSE IF a.dtype = "float16" THEN CastToFloat16(s)
                          ELSE s]

(* the aggregation engine takes the payload of the peer and adds it in *)
Allreduce ==
    /\ pc = "compressed"
    /\ horovod_size >= 1
    /\ agg' = IF k = 0 THEN payload ELSE TensorAdd(agg, payload)
    /\ total' = FAdd(total, payload.val)
    /\ k' = k + 1
    /\ pc' = IF k + 1 = horovod_size THEN "reduced" ELSE "idle"
    /\ tensor' = NoTensor
    /\ payload' = NoTensor
    /\ UNCHANGED <<strategy, dtype, shape, horovod_size, global_max, global_min,
                   ctx, raised, result>>

(* decompress is applied to the aggregate, or (k = 0) straight to the payload *)
Received == IF pc = "reduced" THEN agg ELSE payload

CanDecompress == pc = "reduced" \/ (pc = "compressed" /\ k = 0)

Deliver(t) ==
    /\ result' = t
    /\ pc' = "done"
    /\ UNCHANGED <<strategy, dtype, shape, horovod_size, global_max, global_min,
                   tensor, payload, ctx, raised, k, agg, total>>

NoneDecompress ==
    /\ CanDecompress
    /\ strategy = "none"
    /\ Deliver(NoneCompressor_decompress(Received, ctx))

FP16Decompress ==
    /\ CanDecompress
    /\ strategy = "fp16"
    /\ Deliver(FP16Compressor_decompress(Received, ctx))

INT8Decompress ==
    /\ CanDecompress
    /\ strategy = "int8"
    /\ Deliver(INT8Compressor_decompress(Received, ctx, global_max, global_min))

Next ==
    \/ \E x \in ValuesOf(dtype) : NoneCompress(x)
    \/ \E x \in ValuesOf(dtype) : FP16Compress(x)
    \/ \E x \in ValuesOf(dtype), ub \in NaNCastOutcomes : INT8Compress(x, ub)
    \/ Allreduce
    \/ NoneDecompress
    \/ FP16Decompress
    \/ INT8Decompress

Spec == Init /\ [][Next]_vars

----------------------------------------------------------------------------
(* Properties *)

(* an INT8 call that quantizes with valid parameters *)
Quantizing ==
    /\ strategy = "int8"
    /\ is_floating(dtype)
    /\ horovod_size >= 1
    /\ FLt(global_min, global_max)

(* all horovod_size peers have contributed *)
AllSummed == pc \in {"reduced", "done"} /\ k = horovod_size

(* compress followed directly by decompress, no aggregation in between *)
RoundTrip == pc = "done" /\ k = 0

Int8Max == Whole(Pow2(Bits - 1) - 1)

Within(v, lo, hi) == FLe(lo, v) /\ FLe(v, hi)

(* quantization step of the compression-time range *)
Step(hs) == FDiv(FSub(global_max, global_min),
                 FSub(compress_valid_max(hs), compress_valid_min(hs)))

(* C1: the sum of the horovod_size quantized values of INT8Compressor.compress *)
(* lies in [-127, 127], so the int8 accumulation never wraps                   *)
C1_SumFitsInt8 ==
    (Quantizing /\ AllSummed) =>
        /\ Within(total, FNeg(Int8Max), Int8Max)
        /\ agg.val = total

C1_Witness ==
    /\ Quantizing /\ AllSummed
    /\ horovod_size = 4
    /\ total = Whole(124)

(* the four quantized contributions of the value 1.0, summed *)
FourOnes ==
    /\ Quantizing /\ AllSummed /\ pc = "done"
    /\ horovod_size = 4 /\ global_min = Whole(0) /\ global_max = Whole(4)
    /\ total = FMul(Whole(4),
                    INT8Compressor_compress(Tensor(dtype, shape, Whole(1)), 4,
                                            global_max, global_min, 0).payload.val)

(* C2 as stated: four peers compress 1.0 (horovod_size 4, range [0, 4]); the *)
(* decompressed sum is within 4 * step/2 of the aggregate 4.0                *)
C2_Original ==
    FourOnes =>
        FLe(FAbs(FSub(result.val, Whole(4))),
            FMul(Whole(4), FDiv(Step(4), Whole(2))))

(* C2 amended: the decompressed sum is within 4 * step/2 of 1.0, the value *)
(* every peer holds (the mean of the contributions, not their sum)          *)
C2_SumThenDecompress ==
    FourOnes =>
        FLe(FAbs(FSub(result.val, Whole(1))),
            FMul(Whole(4), FDiv(Step(4), Whole(2))))

C2_Witness == FourOnes /\ total = Whole(-64) /\ result.val = Rat(126, 127)

(* C3: with horovod_size = 1 a value inside [global_min, global_max] comes *)
(* back from compress-then-decompress within half a step, step = range/254  *)
C3_RoundTripHalfStep ==
    (Quantizing /\ RoundTrip /\ horovod_size = 1
        /\ Within(tensor.val, global_min, global_max)) =>
        FLe(FAbs(FSub(result.val, tensor.val)),
            FDiv(FDiv(FSub(global_max, global_min), Whole(254)), Whole(2)))

C3_Witness ==
    /\ Quantizing /\ RoundTrip /\ horovod_size = 1
    /\ global_min = Whole(-1) /\ global_max = Whole(1)
    /\ tensor.val = Rat(1, 2)
    /\ payload.val = Whole(64)
    /\ result.val = Rat(64, 127)

(* the payload INT8Compressor.compress returns for the value v *)
QuantizedOf(v) ==
    INT8Compressor_compress(Tensor(dtype, shape, v), horovod_size, global_max,
                            global_min, 0).payload.val

InValidRange ==
    /\ payload.val.d = 1
    /\ Within(payload.val, compress_valid_min(horovod_size),
              compress_valid_max(horovod_size))

(* C4 as stated: the payload is an integer in [valid_min, valid_max]; a value *)
(* above global_max compresses like global_max, to valid_max, a value below   *)
(* global_min like global_min, to valid_min                                   *)
C4_Original ==
    (Quantizing /\ pc = "compressed") =>
        /\ InValidRange
        /\ FLt(global_max, tensor.val) =>
              /\ payload.val = QuantizedOf(global_max)
              /\ payload.val = compress_valid_max(horovod_size)
        /\ FLt(tensor.val, global_min) =>
              /\ payload.val = QuantizedOf(global_min)
              /\ payload.val = compress_valid_min(horovod_size)

(* C4 amended: as stated, but the boundary integer is valid_max (valid_min) *)
(* truncated toward zero: valid_max itself only when it is an integer        *)
C4_Clipping ==
    (Quantizing /\ pc = "compressed") =>
        /\ InValidRange
        /\ FLt(global_max, tensor.val) =>
              /\ payload.val = QuantizedOf(global_max)
              /\ payload.val = CastToInt8(compress_valid_max(horovod_size), 0)
        /\ FLt(tensor.val, global_min) =>
              /\ payload.val = QuantizedOf(global_min)
              /\ payload.val = CastToInt8(compress_valid_min(horovod_size), 0)

C4_Witness ==
    /\ Quantizing /\ pc = "compressed"
    /\ horovod_size = 3
    /\ global_min = Whole(-1) /\ global_max = Whole(1)
    /\ tensor.val = Whole(5)
    /\ payload.val = Whole(41)

(* C5 as stated: a non-floating tensor passes through every strategy: compress *)
(* returns (t, dtype(t)) and decompress returns t                              *)
C5_Original ==
    ~is_floating(dtype) =>
        /\ pc = "compressed" => payload = tensor /\ ctx = tensor.dtype
        /\ RoundTrip => result = tensor

(* C5 amended: the payload of a non-floating tensor is the tensor itself under *)
(* every strategy and decompress returns it unchanged; the context is its      *)
(* dtype for FP16Compressor and INT8Compressor and None for NoneCompressor     *)
C5_NonFloatingPassThrough ==
    ~is_floating(dtype) =>
        /\ pc = "compressed" =>
              /\ payload = tensor
              /\ ctx = IF strategy = "none" THEN "None" ELSE tensor.dtype
        /\ RoundTrip => result = tensor

C5_Witness ==
    /\ ~is_floating(dtype)
    /\ RoundTrip
    /\ strategy = "int8"
    /\ horovod_size = 0
    /\ tensor.val = Whole(300)
    /\ result = tensor

(* C6: decompress after compress gives back the dtype and the shape of the   *)
(* input; FP16 and INT8 return the input dtype as context and decompress to  *)
(* exactly that dtype; a floating tensor travels as float16 or int8          *)
C6_DtypeShapePreserved ==
    /\ pc = "compressed" =>
          /\ payload.shape = tensor.shape
          /\ strategy \in {"fp16", "int8"} => ctx = tensor.dtype
          /\ (strategy = "fp16" /\ is_floating(dtype)) => payload.dtype = "float16"
          /\ (strategy = "int8" /\ is_floating(dtype)) => payload.dtype = "int8"
          /\ ~is_floating(dtype) => payload.dtype = dtype
    /\ pc = "done" =>
          /\ result.dtype = dtype
          /\ result.shape = shape
          /\ strategy \in {"fp16", "int8"} => result.dtype = ctx

C6_Witness ==
    /\ pc = "done"
    /\ strategy = "fp16"
    /\ dtype = "float64"
    /\ shape = <<2>>
    /\ result.dtype = "float64"
    /\ IsInf(result.val)

(* C7: NoneCompressor.compress returns (t, None) and decompress of that pair *)
(* returns t, value and dtype unchanged                                       *)
C7_NoneIdentity ==
    strategy = "none" =>
        /\ pc = "compressed" => payload = tensor /\ ctx = "None"
        /\ RoundTrip => result = tensor

C7_Witness ==
    /\ strategy = "none"
    /\ RoundTrip
    /\ dtype = "float32"
    /\ tensor.val = Rat(4097, 2)
    /\ result = tensor

(* C8 as stated: no call of any strategy ends in a raised error, also not *)
(* INT8Compressor.compress with horovod_size = 0 or global_max = global_min *)
C8_Original == raised = "none" /\ pc # "raised"

(* C8 amended: the only call that raises is INT8Compressor.compress on a    *)
(* floating tensor with horovod_size = 0 (ZeroDivisionError from            *)
(* 2**7/horovod_size); with global_max = global_min and horovod_size >= 1   *)
(* it returns an int8 payload and the context                               *)
C8_OnlyZeroSizeRaises ==
    /\ (raised # "none" \/ pc = "raised") =>
          /\ strategy = "int8" /\ is_floating(dtype) /\ horovod_size = 0
          /\ raised = "ZeroDivisionError" /\ pc = "raised"
    /\ (strategy = "int8" /\ is_floating(dtype) /\ horovod_size = 0) =>
          pc \in {"idle", "raised"}
    /\ (strategy = "int8" /\ is_floating(dtype) /\ horovod_size >= 1
            /\ global_max = global_min /\ pc = "compressed") =>
          /\ payload.dtype = "int8" /\ IsFinite(payload.val)
          /\ ctx = dtype

C8_Witness ==
    /\ strategy = "int8" /\ is_floating(dtype) /\ horovod_size >= 1
    /\ global_max = global_min
    /\ pc = "compressed"
    /\ tensor.val = global_min
    /\ payload.val = Whole(-128)

(* C10: the decompressed sum of the horovod_size quantized values lies in *)
(* [global_min, global_max]                                               *)
C10_AggregateInRange ==
    (Quantizing /\ AllSummed /\ pc = "done") =>
        Within(result.val, global_min, global_max)

C10_Witness ==
    /\ Quantizing /\ AllSummed /\ pc = "done"
    /\ horovod_size = 4
    /\ global_min = Whole(-1) /\ global_max = Whole(4)
    /\ total = Whole(124)
    /\ result.val = FAdd(FMul(Rat(251, 254), Whole(5)), Whole(-1))

====
